---- MODULE Spec2Model ----
(***************************************************************************)
(* Model of the windowed event store (src/src/utils/state_store.py) and    *)
(* of the feature engine built on it (src/src/streaming_features.py).      *)
(*                                                                         *)
(* Python dicts are functions whose DOMAIN is the set of keys present, so  *)
(* `k in d` is k \in DOMAIN d and d.get(k, v) is Get(d, k, v).  Time is in *)
(* whole seconds.  Numbers stored in a feature vector are exact rationals  *)
(* <<n, d>> in lowest terms (d > 0).  The two features that the code       *)
(* derives from a standard deviation are stored as their signed square     *)
(* (sign(v) * v * v), an order-preserving bijection that keeps them        *)
(* rational: amount_zscore > 2 reads RLess(R(4), f["amount_zscore"]).      *)
(***************************************************************************)
EXTENDS Integers, Sequences, FiniteSets, TLC

(* ---------------------------------------------------------------------- *)
(* Bounds of the model                                                     *)
(* ---------------------------------------------------------------------- *)

\* deque(maxlen=1000) of state_store.py:12, scaled so that eviction happens
Capacity == 2

\* number of process_event calls in one behaviour
MaxProcess == 3

\* number of clock advances in one behaviour
MaxTicks == 1

\* events in a slice handed to a calculator
MaxSlice == 11

\* events of a slice that differ from its first event
MaxRare == 2

\* number of clock advances in one behaviour of the periodic cleanup
MaxCleanupTicks == 2

\* amounts in a slice handed to the amount calculator
MaxAmounts == 4

(* ---------------------------------------------------------------------- *)
(* Program constants                                                       *)
(* ---------------------------------------------------------------------- *)

\* StateStore.__init__ default max_window_minutes
MaxWindowMinutes == 60

\* StateStore.__init__ default cleanup_interval (seconds)
CleanupInterval == 300

\* the three window lengths of _calculate_features, in minutes
Window1h == 60

Window24h == 1440

Window1w == 10080

\* time.time() when the store is constructed
T0 == 1000000

Users == {"u1", "u2"}

\* the callers of the concurrent behaviours
Threads == {"t1", "t2"}

FeatureNames ==
    {"transaction_velocity_1h", "amount_zscore", "location_anomaly",
     "time_pattern_score", "merchant_diversity", "payment_method_consistency",
     "amount_volatility", "location_consistency"}

(* ---------------------------------------------------------------------- *)
(* Dicts and exact rationals                                               *)
(* ---------------------------------------------------------------------- *)

Get(d, k, dflt) == IF k \in DOMAIN d THEN d[k] ELSE dflt

\* dict.update(): every key of b overwrites, every other key of a stays
Merge(a, b) ==
    [k \in (DOMAIN a) \cup (DOMAIN b) |-> IF k \in DOMAIN b THEN b[k] ELSE a[k]]

Put(d, k, v) == Merge(d, [x \in {k} |-> v])

EmptyDict == <<>>

Abs(x) == IF x < 0 THEN 0 - x ELSE x

RECURSIVE GCD(_, _)
GCD(a, b) == IF b = 0 THEN a ELSE GCD(b, a % b)

\* the rational n/d (d # 0) in lowest terms with a positive denominator
Norm(n, d) ==
    LET g == GCD(Abs(n), Abs(d))
        s == IF d < 0 THEN 0 - 1 ELSE 1
    IN  <<(s * n) \div g, (s * d) \div g>>

R(n) == <<n, 1>>

RMul(a, b) == Norm(a[1] * b[1], a[2] * b[2])

RDiv(a, b) == Norm(a[1] * b[2], a[2] * b[1])

RAdd(a, b) == Norm(a[1] * b[2] + b[1] * a[2], a[2] * b[2])

RSub(a, b) == Norm(a[1] * b[2] - b[1] * a[2], a[2] * b[2])

RLess(a, b) == a[1] * b[2] < b[1] * a[2]

RLeq(a, b) == a[1] * b[2] <= b[1] * a[2]

RECURSIVE SumSeq(_)
SumSeq(s) == IF s = <<>> THEN 0 ELSE Head(s) + SumSeq(Tail(s))

Front(s) == SubSeq(s, 1, Len(s) - 1)

Last(s) == s[Len(s)]

Range(s) == {s[i] : i \in DOMAIN s}

Count(s, v) == Cardinality({i \in DOMAIN s : s[i] = v})

\* max(counts.values()) of a defaultdict(int) counting the elements of s
MaxCount(s) ==
    LET cs == {Count(s, v) : v \in Range(s)}
    IN  CHOOSE c \in cs : \A o \in cs : o <= c

(* ---------------------------------------------------------------------- *)
(* State                                                                   *)
(* ---------------------------------------------------------------------- *)

VARIABLES
    now,          \* time.time()
    store,        \* StateStore._store: user_id -> UserState, keys = DOMAIN
    last_cleanup, \* StateStore.last_cleanup
    processed,    \* observer: the user ids process_event was called for
    faulted,      \* observer: per user, the events of the process_event calls
                  \* that returned False since the last one that returned True
    allok,        \* observer: every process_event call so far returned True
    slice,        \* the list of events a calculator is called with
    nproc,        \* process_event calls made
    nticks,       \* clock advances made
    pc,           \* per thread: the statement of process_event it is at
    tevent,       \* per thread: the local `event` of process_event
    held,         \* per thread: the local `state` of the store method it is
                  \* in: "none", "live" (the object the dict maps the user
                  \* to) or "orphan" (an object the dict no longer holds)
    feat,         \* per thread: the local `features` of process_event
    ret           \* per thread: the value process_event returned

tvars == <<pc, tevent, held, feat, ret>>

vars == <<now, store, last_cleanup, processed, faulted, allok, slice, nproc, nticks,
          pc, tevent, held, feat, ret>>

(* ---------------------------------------------------------------------- *)
(* state_store.py                                                          *)
(* ---------------------------------------------------------------------- *)

\* UserState(): empty deque, empty feature vector, both stamps time.time()
NewUserState(t) ==
    [recent_events |-> <<>>, feature_vector |-> EmptyDict,
     last_updated |-> t, created_at |-> t]

\* the store after get_user_state(u): the state is created when missing
GetUserState(st, u, t) ==
    IF u \in DOMAIN st THEN st ELSE Put(st, u, NewUserState(t))

\* mutant: a buffer that never evicts
DequeAppendUnbounded(q, e) == Append(q, e)

\* mutant: a full buffer evicts the event with the earliest timestamp
DequeAppendEvictsEarliestStamp(q, e) ==
    IF Len(q) >= Capacity
    THEN LET i == CHOOSE k \in 1..Len(q) :
                      /\ \A j \in 1..Len(q) :
                            Get(q[k], "timestamp_unix", 0) <= Get(q[j], "timestamp_unix", 0)
                      /\ \A j \in 1..(k - 1) :
                            Get(q[k], "timestamp_unix", 0) < Get(q[j], "timestamp_unix", 0)
         IN  Append(SubSeq(q, 1, i - 1) \o SubSeq(q, i + 1, Len(q)), e)
    ELSE Append(q, e)

\* deque(maxlen=Capacity).append: a full deque drops its leftmost element
DequeAppend(q, e) ==
    IF Len(q) >= Capacity THEN Append(Tail(q), e) ELSE Append(q, e)

UpdateUserEvents(st, u, e, t) ==
    LET s1 == GetUserState(st, u, t)
    IN  [s1 EXCEPT ![u].recent_events = DequeAppend(@, e),
                   ![u].last_updated = t]

\* mutant: a key the vector holds already keeps its value
UpdateUserFeaturesKeepsOld(st, u, f, t) ==
    LET s1 == GetUserState(st, u, t)
    IN  [s1 EXCEPT ![u].feature_vector = Merge(f, @),
                   ![u].last_updated = t]

\* mutant: the vector is replaced by the features given
UpdateUserFeaturesReplaces(st, u, f, t) ==
    LET s1 == GetUserState(st, u, t)
    IN  [s1 EXCEPT ![u].feature_vector = f,
                   ![u].last_updated = t]

UpdateUserFeatures(st, u, f, t) ==
    LET s1 == GetUserState(st, u, t)
    IN  [s1 EXCEPT ![u].feature_vector = Merge(@, f),
                   ![u].last_updated = t]

\* mutant: the stored dict itself is returned
ReturnsStoredDictItself == TRUE

\* `state.feature_vector.copy()`: is the dict returned the stored object?
ReturnsStoredDict == FALSE

\* get_user_features(u): <<the store after the call, the dict returned,
\* whether that dict is the stored object>>
GetUserFeatures(st, u, t) ==
    LET s1 == GetUserState(st, u, t)
    IN  <<s1, s1[u].feature_vector, ReturnsStoredDict>>

\* the store after d[k] = v on a dict d that get_user_features or
\* get_features returned for u: only a shared dict reaches the store
WriteReturnedDict(st, u, shared, k, v) ==
    IF shared THEN [st EXCEPT ![u].feature_vector = Put(@, k, v)] ELSE st

\* get_recent_events(u, minutes); minutes = 0 stands for None as well,
\* both are falsy in `window_minutes or self.max_window_minutes`
GetRecentEvents(st, u, minutes, t) ==
    IF u \notin DOMAIN st THEN <<>>
    ELSE LET wm     == IF minutes = 0 THEN MaxWindowMinutes ELSE minutes
             cutoff == t - (wm * 60)
         IN  SelectSeq(st[u].recent_events,
                       LAMBDA e : Get(e, "timestamp_unix", 0) > cutoff)

CutoffTime(t) == t - (MaxWindowMinutes * 60)

\* mutant: every old event is removed, wherever it is stored
TrimOldEverywhere(q, cutoff) ==
    SelectSeq(q, LAMBDA e : ~(Get(e, "timestamp_unix", 0) < cutoff))

\* mutant: no event is ever removed
TrimOldNothing(q, cutoff) == q

\* the while loop of clear_old_entries: popleft while the head is old
RECURSIVE TrimOld(_, _)
TrimOld(q, cutoff) ==
    IF q # <<>> /\ Get(Head(q), "timestamp_unix", 0) < cutoff
    THEN TrimOld(Tail(q), cutoff)
    ELSE q

\* mutant: the emptiness of the history is not asked
RemovableWhateverHistory(s, cutoff) ==
    s.last_updated < cutoff /\ s.created_at < cutoff

\* the if of clear_old_entries, on the state as the loop finds it
Removable(s, cutoff) ==
    /\ s.last_updated < cutoff
    /\ s.created_at < cutoff
    /\ s.recent_events = <<>>

UsersToRemove(st, t) == {u \in DOMAIN st : Removable(st[u], CutoffTime(t))}

\* mutant: the entities with both stamps old are counted, deleted or not
ClearedCountStale(st, t) ==
    Cardinality({u \in DOMAIN st : RemovableWhateverHistory(st[u], CutoffTime(t))})

\* the number clear_old_entries() returns
ClearedCount(st, t) == Cardinality(UsersToRemove(st, t))

\* the store after clear_old_entries()
ClearOldEntries(st, t) ==
    [u \in (DOMAIN st) \ UsersToRemove(st, t) |->
        [st[u] EXCEPT !.recent_events = TrimOld(@, CutoffTime(t))]]

\* mutant: the cleanup is due as soon as the interval has passed
ShouldCleanupAtInterval(t, lc) == t - lc >= CleanupInterval

ShouldCleanup(t, lc) == t - lc > CleanupInterval

RECURSIVE TotalEvents(_, _)
TotalEvents(st, us) ==
    IF us = {} THEN 0
    ELSE LET u == CHOOSE x \in us : TRUE
         IN  Len(st[u].recent_events) + TotalEvents(st, us \ {u})

\* get_stats()
GetStats(st, lc) ==
    [total_users |-> Cardinality(DOMAIN st),
     total_events |-> TotalEvents(st, DOMAIN st),
     max_window_minutes |-> MaxWindowMinutes,
     last_cleanup |-> lc]

(* ---------------------------------------------------------------------- *)
(* time_utils.py                                                           *)
(* ---------------------------------------------------------------------- *)

\* parse_timestamp: a timestamp text is [iso |-> seconds] when
\* datetime.fromisoformat accepts it and [text |-> ...] when it raises
\* mutant: a text that cannot be parsed gives the epoch 0
ParseTimestampZeroOnFailure(ts, t) == IF "iso" \in DOMAIN ts THEN ts.iso ELSE 0

ParseTimestamp(ts, t) == IF "iso" \in DOMAIN ts THEN ts.iso ELSE t

\* get_time_features: hour_of_day and day_of_week (0 = Monday) of a
\* timestamp, in UTC; 1970-01-01 was a Thursday
HourOfDay(ts) == (ts \div 3600) % 24

DayOfWeek(ts) == ((ts \div 86400) + 3) % 7

(* ---------------------------------------------------------------------- *)
(* streaming_features.py: the calculators                                  *)
(* ---------------------------------------------------------------------- *)

\* an amount is [n |-> number], or [s |-> text] when it is not a number
Num(n) == [n |-> n]

IsNumber(a) == "n" \in DOMAIN a

Amounts(events) == [i \in 1..Len(events) |-> Get(events[i], "amount", Num(0))]

\* statistics.mean / the subtraction raise TypeError on a non-number; with
\* fewer than 2 amounts the function returns before any arithmetic
AmountFaults(events) ==
    /\ Len(events) >= 2
    /\ \E i \in 1..Len(events) : ~IsNumber(Amounts(events)[i])

\* abs(mean) * 0.1 if mean != 0 else 1.0, squared
FloorStd2(mean) ==
    IF mean[1] # 0 THEN RMul(RMul(mean, mean), <<1, 100>>) ELSE R(1)

\* statistics.stdev(xs) squared: sum((x - mean)^2) / (n - 1), n >= 2
Variance(xs) ==
    LET n  == Len(xs)
        S  == SumSeq(xs)
        SS == SumSeq([i \in 1..n |-> xs[i] * xs[i]])
    IN  Norm((n * SS) - (S * S), n * (n - 1))

\* mutant: the latest amount is part of the historical amounts
CalculateAmountFeaturesLatestInHistory(events) ==
    LET vals   == [i \in 1..Len(events) |-> Amounts(events)[i].n]
        recent == Last(vals)
        hist   == vals
        mean   == Norm(SumSeq(hist), Len(hist))
        std2   == IF Len(hist) = 1 THEN FloorStd2(mean)
                  ELSE IF Variance(hist)[1] = 0 THEN FloorStd2(mean)
                  ELSE Variance(hist)
        diff   == RSub(R(recent), mean)
        z2     == RDiv(RMul(diff, diff), std2)
        zscore == IF diff[1] < 0 THEN <<0 - z2[1], z2[2]>> ELSE z2
        vol    == IF mean[1] > 0 THEN RDiv(std2, RMul(mean, mean)) ELSE R(0)
    IN  IF Len(events) < 2
        THEN [amount_zscore |-> R(0), amount_volatility |-> R(0)]
        ELSE [amount_zscore |-> zscore, amount_volatility |-> vol]

\* _calculate_amount_features, for a slice on which it does not raise
CalculateAmountFeatures(events) ==
    LET vals   == [i \in 1..Len(events) |-> Amounts(events)[i].n]
        recent == Last(vals)
        hist   == Front(vals)
        mean   == Norm(SumSeq(hist), Len(hist))
        std2   == IF Len(hist) = 1 THEN FloorStd2(mean)
                  ELSE IF Variance(hist)[1] = 0 THEN FloorStd2(mean)
                  ELSE Variance(hist)
        diff   == RSub(R(recent), mean)
        z2     == RDiv(RMul(diff, diff), std2)
        zscore == IF diff[1] < 0 THEN <<0 - z2[1], z2[2]>> ELSE z2
        vol    == IF mean[1] > 0 THEN RDiv(std2, RMul(mean, mean)) ELSE R(0)
    IN  IF Len(events) < 2
        THEN [amount_zscore |-> R(0), amount_volatility |-> R(0)]
        ELSE [amount_zscore |-> zscore, amount_volatility |-> vol]

\* [e.get(k, '') for e in events if e.get(k)]
Truthy(events, k) ==
    LET kept == SelectSeq(events, LAMBDA e : Get(e, k, "") # "")
    IN  [i \in 1..Len(kept) |-> kept[i][k]]

\* mutant: a location is rare when it has less than 10% of the events
CalculateLocationFeaturesBelowTenth(events) ==
    LET locations       == Truthy(events, "location")
        recent_location == IF events # <<>> THEN Get(Last(events), "location", "") ELSE ""
        total           == Len(locations)
        recent_count    == Count(locations, recent_location)
        anomaly         == IF recent_count * 10 < total /\ total > 5 THEN 1 ELSE 0
    IN  IF locations = <<>>
        THEN [location_anomaly |-> R(0), location_consistency |-> R(1)]
        ELSE [location_anomaly |-> R(anomaly),
              location_consistency |-> Norm(MaxCount(locations), total)]

\* _calculate_location_features
CalculateLocationFeatures(events) ==
    LET locations       == Truthy(events, "location")
        recent_location == IF events # <<>> THEN Get(Last(events), "location", "") ELSE ""
        total           == Len(locations)
        recent_count    == Count(locations, recent_location)
        anomaly         == IF recent_count * 10 <= total /\ total > 5 THEN 1 ELSE 0
    IN  IF locations = <<>>
        THEN [location_anomaly |-> R(0), location_consistency |-> R(1)]
        ELSE [location_anomaly |-> R(anomaly),
              location_consistency |-> Norm(MaxCount(locations), total)]

\* _calculate_time_features
CalculateTimeFeatures(events) ==
    LET timed    == SelectSeq(events, LAMBDA e : Get(e, "timestamp_unix", 0) > 0)
        hours    == [i \in 1..Len(timed) |-> HourOfDay(timed[i].timestamp_unix)]
        weekdays == [i \in 1..Len(timed) |-> DayOfWeek(timed[i].timestamp_unix)]
        total_historical == Len(hours) - 1
        hour_hits    == Count(Front(hours), Last(hours))
        weekday_hits == Count(Front(weekdays), Last(weekdays))
    IN  IF events = <<>> \/ hours = <<>> THEN [time_pattern_score |-> R(0)]
        ELSE IF total_historical > 0
        THEN [time_pattern_score |->
                 Norm((2 * total_historical) - (hour_hits + weekday_hits),
                      2 * total_historical)]
        ELSE [time_pattern_score |-> R(0)]

\* _calculate_behavioral_features
CalculateBehavioralFeatures(events) ==
    LET merchants       == Truthy(events, "merchant")
        payment_methods == Truthy(events, "payment_method")
        unique_merchants   == Cardinality(Range(merchants))
        total_transactions == Len(events)
    IN  [merchant_diversity |->
            IF total_transactions > 0
            THEN Norm(unique_merchants, total_transactions) ELSE R(0),
         payment_method_consistency |->
            IF payment_methods # <<>>
            THEN Norm(MaxCount(payment_methods), Len(payment_methods))
            ELSE R(1)]

(* ---------------------------------------------------------------------- *)
(* streaming_features.py: the engine                                       *)
(* ---------------------------------------------------------------------- *)

\* _calculate_features raises exactly when the amount calculator does
CalculateFaults(st, u, t) ==
    LET recent_events_24h == GetRecentEvents(st, u, Window24h, t)
    IN  recent_events_24h # <<>> /\ AmountFaults(recent_events_24h)

\* _calculate_features: the dict it returns; a calculator whose slice is
\* empty is not called and contributes no key
CalculateFeatures(st, u, t) ==
    LET recent_events_1h  == GetRecentEvents(st, u, Window1h, t)
        recent_events_24h == GetRecentEvents(st, u, Window24h, t)
        recent_events_1w  == GetRecentEvents(st, u, Window1w, t)
        f0 == [transaction_velocity_1h |-> R(Len(recent_events_1h))]
        f1 == IF recent_events_24h # <<>>
              THEN Merge(f0, CalculateAmountFeatures(recent_events_24h)) ELSE f0
        f2 == IF recent_events_1w # <<>>
              THEN Merge(f1, CalculateLocationFeatures(recent_events_1w)) ELSE f1
        f3 == IF recent_events_1w # <<>>
              THEN Merge(f2, CalculateTimeFeatures(recent_events_1w)) ELSE f2
    IN  IF recent_events_1w # <<>>
        THEN Merge(f3, CalculateBehavioralFeatures(recent_events_1w)) ELSE f3

\* default_features of get_features
DefaultFeatures ==
    [transaction_velocity_1h |-> R(0), amount_zscore |-> R(0),
     location_anomaly |-> R(0), time_pattern_score |-> R(0),
     merchant_diversity |-> R(0), payment_method_consistency |-> R(1),
     amount_volatility |-> R(0), location_consistency |-> R(1)]

\* mutant: the stored vector is returned without the defaults
EngineGetFeaturesUnfilled(st, u, t) == GetUserFeatures(st, u, t)

\* get_features(u): <<the store after the call, the dict returned, whether
\* that dict is the stored object>>; the defaults are written into the
\* dict that get_user_features returned
EngineGetFeatures(st, u, t) ==
    LET got    == GetUserFeatures(st, u, t)
        filled == Merge(DefaultFeatures, got[2])
    IN  <<IF got[3] THEN [got[1] EXCEPT ![u].feature_vector = filled] ELSE got[1],
          filled, got[3]>>

\* lines 32-35 of process_event: the event that is stored
WithTimestampUnix(event, t) ==
    IF "timestamp_unix" \notin DOMAIN event /\ "timestamp" \in DOMAIN event
    THEN Put(event, "timestamp_unix", ParseTimestamp(event.timestamp, t))
    ELSE event

\* the periodic cleanup at the end of process_event: <<store, last_cleanup>>
PeriodicCleanup(st, t, lc) ==
    IF ShouldCleanup(t, lc) THEN <<ClearOldEntries(st, t), t>> ELSE <<st, lc>>

\* lines 42-49 of process_event on the store with the event appended:
\* <<store, last_cleanup, True>>
RecomputeAndCleanup(appended, lc, user_id, t) ==
    PeriodicCleanup(UpdateUserFeatures(appended, user_id,
                                       CalculateFeatures(appended, user_id, t), t),
                    t, lc) \o <<TRUE>>

\* lines 38-55 of process_event, the event appended: a fault in
\* _calculate_features is caught and False returned
AppendedThen(st, appended, lc, user_id, t) ==
    IF CalculateFaults(appended, user_id, t) THEN <<appended, lc, FALSE>>
    ELSE RecomputeAndCleanup(appended, lc, user_id, t)

\* mutant: a fault undoes the append
ProcessEventRollsBack(st, lc, event, t) ==
    IF "user_id" \notin DOMAIN event THEN <<st, lc, FALSE>>
    ELSE \* the store as it was when the computation faults
         LET ev  == WithTimestampUnix(event, t)
             res == AppendedThen(st, UpdateUserEvents(st, ev.user_id, ev, t),
                                 lc, ev.user_id, t)
         IN  IF res[3] THEN res ELSE <<st, lc, FALSE>>

\* mutant: an event without a user id is filed under a default id
ProcessEventDefaultsId(st, lc, event, t) ==
    LET ev == WithTimestampUnix(event, t)
        id == Get(ev, "user_id", "u1")
    IN  AppendedThen(st, UpdateUserEvents(st, id, ev, t), lc, id, t)

\* process_event(event): <<store, last_cleanup, value returned>>
ProcessEventResult(st, lc, event, t) ==
    IF "user_id" \notin DOMAIN event THEN <<st, lc, FALSE>>
    ELSE LET ev == WithTimestampUnix(event, t)
         IN  AppendedThen(st, UpdateUserEvents(st, ev.user_id, ev, t),
                          lc, ev.user_id, t)

(* ---------------------------------------------------------------------- *)
(* Inputs                                                                  *)
(* ---------------------------------------------------------------------- *)

Hour == 60 * 60

Day == 24 * Hour

\* what an event says besides who and when
PlainA == [amount |-> Num(10), merchant |-> "M1", location |-> "A",
           payment_method |-> "card"]

PlainB == [amount |-> Num(50), merchant |-> "M2", location |-> "B",
           payment_method |-> "cash"]

\* an amount that is not a number, and no optional field
BadAmount == [amount |-> [s |-> "abc"]]

\* when an event says it happened, asked at time t: now (as ISO text, as
\* the tests send it) or a day ago
StampNow(t) == [timestamp |-> [iso |-> t]]

StampOld(t) == [timestamp_unix |-> t - Day]

\* an event dated one hour after the time it is sent at
StampAhead(t) == [timestamp_unix |-> t + Hour]

\* a timestamp text that datetime.fromisoformat rejects
StampUnparseable == [timestamp |-> [text |-> "not a date"]]

\* neither a timestamp nor a timestamp_unix
NoStamp == EmptyDict

EventOf(u, payload, stamp) == Merge(Merge(payload, stamp), [user_id |-> u])

\* the events a caller may send at time t
Events(t) ==
    { EventOf("u1", PlainA, StampNow(t)), EventOf("u1", PlainB, StampNow(t)),
      EventOf("u1", BadAmount, StampNow(t)), EventOf("u1", PlainA, StampOld(t)),
      EventOf("u2", PlainA, StampNow(t)) }

\* the events of one user that differ in how they say when they happened
StampEvents(t) ==
    { EventOf("u1", PlainA, StampNow(t)), EventOf("u1", PlainA, StampOld(t)),
      EventOf("u1", PlainA, StampUnparseable), EventOf("u1", PlainA, NoStamp) }

TickSteps == {Hour, Day}

\* the concurrent callers all send events of one user
ThreadUser == "u1"

\* what the event of thread t says
Payload(t) == IF t = "t1" THEN PlainA ELSE PlainB

(* ---------------------------------------------------------------------- *)
(* Behaviour: calls made one after the other                               *)
(* ---------------------------------------------------------------------- *)

Init ==
    /\ now = T0
    /\ store = EmptyDict
    /\ last_cleanup = T0
    /\ processed = {}
    /\ faulted = [u \in Users |-> {}]
    /\ allok = TRUE
    /\ slice = <<>>
    /\ nproc = 0
    /\ nticks = 0
    /\ pc = [t \in Threads |-> "idle"]
    /\ tevent = [t \in Threads |-> EmptyDict]
    /\ held = [t \in Threads |-> "none"]
    /\ feat = [t \in Threads |-> EmptyDict]
    /\ ret = [t \in Threads |-> FALSE]

\* the observers after process_event(event) returned ok
Observe(event, ok) ==
    /\ allok' = (allok /\ ok)
    /\ IF "user_id" \notin DOMAIN event
       THEN UNCHANGED <<processed, faulted>>
       ELSE /\ processed' = processed \cup {event.user_id}
            /\ faulted' = [faulted EXCEPT ![event.user_id] =
                              IF ok THEN {} ELSE @ \cup {WithTimestampUnix(event, now)}]

ProcessEvent(event) ==
    /\ nproc < MaxProcess
    /\ \E r \in {ProcessEventResult(store, last_cleanup, event, now)} :
        /\ nproc' = nproc + 1
        /\ store' = r[1]
        /\ last_cleanup' = r[2]
        /\ Observe(event, r[3])
        /\ UNCHANGED <<now, nticks, tvars, slice>>

GetFeatures(u) ==
    \E r \in {EngineGetFeatures(store, u, now)} :
        /\ store' = r[1]
        /\ UNCHANGED <<now, last_cleanup, processed, faulted, allok, slice, nproc, nticks, tvars>>

\* the references of the threads once the dict has become st: an object
\* deleted from the dict stays alive for the thread that holds it
Detach(h, st) ==
    [t \in Threads |-> IF h[t] = "live" /\ ThreadUser \notin DOMAIN st
                       THEN "orphan" ELSE h[t]]

ClearOld ==
    /\ store' = ClearOldEntries(store, now)
    /\ last_cleanup' = now
    /\ held' = Detach(held, store')
    /\ UNCHANGED <<now, processed, faulted, allok, slice, nproc, nticks, pc, tevent, feat, ret>>

Tick(d) ==
    /\ nticks < MaxTicks
    /\ nticks' = nticks + 1
    /\ now' = now + d
    /\ UNCHANGED <<store, last_cleanup, processed, faulted, allok, slice, nproc, tvars>>

Next ==
    \/ \E event \in Events(now) : ProcessEvent(event)
    \/ \E u \in Users : GetFeatures(u)
    \/ ClearOld
    \/ \E d \in TickSteps : Tick(d)

Spec == Init /\ [][Next]_vars

\* the same calls, made with the events of StampEvents
NextStamps ==
    \/ \E event \in StampEvents(now) : ProcessEvent(event)
    \/ GetFeatures("u1")
    \/ ClearOld
    \/ \E d \in TickSteps : Tick(d)

SpecStamps == Init /\ [][NextStamps]_vars

(* ---------------------------------------------------------------------- *)
(* Behaviour: process_event calls with the clock advancing around the      *)
(* cleanup interval; clear_old_entries runs only from process_event        *)
(* ---------------------------------------------------------------------- *)

\* the interval itself, one second more, and a day
CleanupTickSteps == {CleanupInterval, CleanupInterval + 1, Day}

CleanupEvents(t) ==
    { EventOf("u1", PlainA, StampNow(t)), EventOf("u1", PlainA, StampOld(t)),
      EventOf("u2", PlainA, StampNow(t)) }

CleanupTick(d) ==
    /\ nticks < MaxCleanupTicks
    /\ nticks' = nticks + 1
    /\ now' = now + d
    /\ UNCHANGED <<store, last_cleanup, processed, faulted, allok, slice, nproc, tvars>>

NextPeriodic ==
    \/ \E event \in CleanupEvents(now) : ProcessEvent(event)
    \/ \E d \in CleanupTickSteps : CleanupTick(d)

SpecPeriodic == Init /\ [][NextPeriodic]_vars

(* ---------------------------------------------------------------------- *)
(* Behaviour: the slices the calculators are called with                   *)
(* ---------------------------------------------------------------------- *)

\* an event of u1 with the given amount and location ("" for none), stamped t
CalcEvent(a, loc, t) ==
    LET base == [user_id |-> "u1", amount |-> Num(a), merchant |-> "M1",
                 payment_method |-> "card", timestamp_unix |-> t]
    IN  IF loc = "" THEN base ELSE Put(base, "location", loc)

\* the events the slices are made of: the amounts m and 5 * m for m = 10
\* and m = 100 at one location, and one amount at another or at no location
CalcEvents(t) ==
    {CalcEvent(a, "A", t) : a \in {10, 50, 100, 500}}
        \cup {CalcEvent(10, loc, t) : loc \in {"B", ""}}

Deviations(q) == Cardinality({i \in 1..Len(q) : q[i] # q[1]})

\* one more event joins the slice, as one more process_event call adds an
\* event to the windows _calculate_features reads
AppendToSlice(e) ==
    /\ Len(slice) < MaxSlice
    /\ Deviations(Append(slice, e)) <= MaxRare
    /\ slice' = Append(slice, e)
    /\ UNCHANGED <<now, store, last_cleanup, processed, faulted, allok, nproc, nticks, tvars>>

NextCalc == \E e \in CalcEvents(now) : AppendToSlice(e)

SpecCalc == Init /\ [][NextCalc]_vars

(* ---------------------------------------------------------------------- *)
(* Behaviour: time keeps advancing and clear_old_entries keeps being       *)
(* called                                                                  *)
(*                                                                         *)
(* The clock advances for as long as some stored entity has an event or a  *)
(* stamp that is not yet older than the cutoff; once every stored entity   *)
(* is that old, more time changes nothing a cleanup looks at, which keeps  *)
(* the set of clock values finite.  Both the advancing clock and the       *)
(* cleanup are taken weakly fair.                                          *)
(* ---------------------------------------------------------------------- *)

\* everything clear_old_entries compares with the cutoff is older than it
AllExpired(st, u, t) ==
    /\ st[u].last_updated < CutoffTime(t)
    /\ st[u].created_at < CutoffTime(t)
    /\ \A i \in 1..Len(st[u].recent_events) :
          Get(st[u].recent_events[i], "timestamp_unix", 0) < CutoffTime(t)

TimePasses(d) ==
    /\ \E u \in DOMAIN store : ~AllExpired(store, u, now)
    /\ now' = now + d
    /\ UNCHANGED <<store, last_cleanup, processed, faulted, allok, slice, nproc, nticks, tvars>>

NextLive ==
    \/ \E event \in CleanupEvents(now) : ProcessEvent(event)
    \/ ClearOld
    \/ \E d \in TickSteps : TimePasses(d)

SpecLive ==
    /\ Init
    /\ [][NextLive]_vars
    /\ WF_vars(ClearOld)
    /\ WF_vars(\E d \in TickSteps : TimePasses(d))

(* ---------------------------------------------------------------------- *)
(* Behaviour: process_event called with events of every shape              *)
(* ---------------------------------------------------------------------- *)

\* an event without a user id
Anonymous(payload, stamp) == Merge(payload, stamp)

\* well-formed events, events whose amount or timestamp is not what it
\* should be, and events without a user id
AnyEvents(t) ==
    { EventOf("u1", PlainA, StampNow(t)), EventOf("u1", BadAmount, StampNow(t)),
      EventOf("u1", PlainA, StampUnparseable), EventOf("u2", PlainA, StampOld(t)),
      Anonymous(PlainA, StampNow(t)), Anonymous(BadAmount, StampUnparseable),
      Anonymous(PlainB, NoStamp) }

NextAny ==
    \/ \E event \in AnyEvents(now) : ProcessEvent(event)
    \/ ClearOld
    \/ \E d \in TickSteps : Tick(d)

SpecAny == Init /\ [][NextAny]_vars

(* ---------------------------------------------------------------------- *)
(* Behaviour: events dated later than the time they are processed at       *)
(* ---------------------------------------------------------------------- *)

AheadEvents(t) ==
    { EventOf("u1", PlainA, StampNow(t)), EventOf("u1", PlainB, StampAhead(t)),
      EventOf("u2", PlainA, StampAhead(t)) }

NextAhead ==
    \/ \E event \in AheadEvents(now) : ProcessEvent(event)
    \/ ClearOld
    \/ \E d \in TickSteps : Tick(d)

SpecAhead == Init /\ [][NextAhead]_vars

(* ---------------------------------------------------------------------- *)
(* Behaviour: the amounts the amount calculator is called with             *)
(* ---------------------------------------------------------------------- *)

\* amounts below and above 10, none, and a refund
AmountSteps == {0 - 5, 0, 5, 10, 50}

AppendAmount(a) ==
    /\ Len(slice) < MaxAmounts
    /\ slice' = Append(slice, CalcEvent(a, "A", now))
    /\ UNCHANGED <<now, store, last_cleanup, processed, faulted, allok, nproc, nticks, tvars>>

NextAmounts == \E a \in AmountSteps : AppendAmount(a)

SpecAmounts == Init /\ [][NextAmounts]_vars

(* ---------------------------------------------------------------------- *)
(* Behaviour: process_event called from two threads                        *)
(*                                                                         *)
(* Neither class takes a lock, so a thread switch may fall between any two *)
(* statements.  The steps below are the statements of process_event and of *)
(* the store methods it calls that read or write the shared dict or a      *)
(* UserState; _calculate_features and clear_old_entries are taken as one   *)
(* step each, which leaves out interleavings and adds none.                *)
(* ---------------------------------------------------------------------- *)

Goto(t, label) == pc' = [pc EXCEPT ![t] = label]

\* process_event, lines 32-38: the event gets its timestamp_unix
Start(t) ==
    /\ pc[t] = "idle"
    /\ tevent' = [tevent EXCEPT ![t] =
                 WithTimestampUnix(EventOf(ThreadUser, Payload(t), StampNow(now)), now)]
    /\ Goto(t, "ev_check")
    /\ UNCHANGED <<now, store, last_cleanup, processed, faulted, allok, slice, nproc, nticks,
                   held, feat, ret>>

\* get_user_state, line 29: `if user_id not in self._store`
GetUserStateCheck(t) ==
    /\ pc[t] \in {"ev_check", "fv_check"}
    /\ Goto(t, IF ThreadUser \in DOMAIN store
               THEN (IF pc[t] = "ev_check" THEN "ev_return" ELSE "fv_return")
               ELSE (IF pc[t] = "ev_check" THEN "ev_create" ELSE "fv_create"))
    /\ UNCHANGED <<now, store, last_cleanup, processed, faulted, allok, slice, nproc, nticks,
                   tevent, held, feat, ret>>

\* get_user_state, line 30: `self._store[user_id] = UserState()`, whatever
\* the dict holds for the user by now
GetUserStateCreate(t) ==
    /\ pc[t] \in {"ev_create", "fv_create"}
    /\ store' = Put(store, ThreadUser, NewUserState(now))
    /\ held' = [x \in Threads |-> IF held[x] = "live" THEN "orphan" ELSE held[x]]
    /\ Goto(t, IF pc[t] = "ev_create" THEN "ev_return" ELSE "fv_return")
    /\ UNCHANGED <<now, last_cleanup, processed, faulted, allok, slice, nproc, nticks,
                   tevent, feat, ret>>

\* get_user_state, line 31: `return self._store[user_id]`; a KeyError is
\* caught by process_event, which returns False
GetUserStateReturn(t) ==
    /\ pc[t] \in {"ev_return", "fv_return"}
    /\ IF ThreadUser \in DOMAIN store
       THEN /\ held' = [held EXCEPT ![t] = "live"]
            /\ Goto(t, IF pc[t] = "ev_return" THEN "ev_append" ELSE "fv_write")
            /\ UNCHANGED <<feat, ret>>
       ELSE /\ Goto(t, "done")
            /\ feat' = [feat EXCEPT ![t] = EmptyDict]
            /\ ret' = [ret EXCEPT ![t] = FALSE]
            /\ UNCHANGED held
    /\ UNCHANGED <<now, store, last_cleanup, processed, faulted, allok, slice, nproc, nticks, tevent>>

\* update_user_events, lines 36-37, on the object the thread holds
UpdateUserEventsAppend(t) ==
    /\ pc[t] = "ev_append"
    /\ store' = IF held[t] = "live"
                THEN [store EXCEPT ![ThreadUser].recent_events = DequeAppend(@, tevent[t]),
                                   ![ThreadUser].last_updated = now]
                ELSE store
    /\ held' = [held EXCEPT ![t] = "none"]
    /\ Goto(t, "calc")
    /\ UNCHANGED <<now, last_cleanup, processed, faulted, allok, slice, nproc, nticks,
                   tevent, feat, ret>>

\* process_event, line 42: `features = self._calculate_features(user_id)`
Calculate(t) ==
    /\ pc[t] = "calc"
    /\ IF CalculateFaults(store, ThreadUser, now)
       THEN /\ Goto(t, "done")
            /\ ret' = [ret EXCEPT ![t] = FALSE]
            /\ UNCHANGED feat
       ELSE /\ Goto(t, "fv_check")
            /\ feat' = [feat EXCEPT ![t] = CalculateFeatures(store, ThreadUser, now)]
            /\ UNCHANGED ret
    /\ UNCHANGED <<now, store, last_cleanup, processed, faulted, allok, slice, nproc, nticks,
                   tevent, held>>

\* update_user_features, lines 42-43, on the object the thread holds
UpdateUserFeaturesWrite(t) ==
    /\ pc[t] = "fv_write"
    /\ store' = IF held[t] = "live"
                THEN [store EXCEPT ![ThreadUser].feature_vector = Merge(@, feat[t]),
                                   ![ThreadUser].last_updated = now]
                ELSE store
    /\ held' = [held EXCEPT ![t] = "none"]
    /\ feat' = [feat EXCEPT ![t] = EmptyDict]
    /\ Goto(t, "cleanup")
    /\ UNCHANGED <<now, last_cleanup, processed, faulted, allok, slice, nproc, nticks, tevent, ret>>

\* process_event, lines 46-51: the periodic cleanup, then `return True`
CleanupAndReturn(t) ==
    /\ pc[t] = "cleanup"
    /\ \E r \in {PeriodicCleanup(store, now, last_cleanup)} :
          /\ store' = r[1]
          /\ last_cleanup' = r[2]
          /\ held' = Detach(held, r[1])
    /\ ret' = [ret EXCEPT ![t] = TRUE]
    /\ Goto(t, "done")
    /\ UNCHANGED <<now, processed, faulted, allok, slice, nproc, nticks, tevent, feat>>

NextConc ==
    \/ \E t \in Threads : Start(t)
    \/ \E t \in Threads : GetUserStateCheck(t)
    \/ \E t \in Threads : GetUserStateCreate(t)
    \/ \E t \in Threads : GetUserStateReturn(t)
    \/ \E t \in Threads : UpdateUserEventsAppend(t)
    \/ \E t \in Threads : Calculate(t)
    \/ \E t \in Threads : UpdateUserFeaturesWrite(t)
    \/ \E t \in Threads : CleanupAndReturn(t)
    \/ GetFeatures(ThreadUser)
    \/ ClearOld
    \/ \E d \in TickSteps : Tick(d)

SpecConc == Init /\ [][NextConc]_vars

(* ---------------------------------------------------------------------- *)
(* Which call a step is                                                    *)
(* ---------------------------------------------------------------------- *)

IsProcessStep == nproc' = nproc + 1

History(u) == store[u].recent_events

StampOf(e) == Get(e, "timestamp_unix", 0)

\* the events of q inside a window of the given number of seconds at time t
InWindow(q, seconds, t) == SelectSeq(q, LAMBDA e : StampOf(e) > t - seconds)

\* q after one more event e was pushed on a buffer of Capacity entries
Pushed(q, e) == IF Len(q) = Capacity THEN Append(Tail(q), e) ELSE Append(q, e)

HistoryBefore(u) == IF u \in DOMAIN store THEN History(u) ELSE <<>>

FeaturesBefore(u) == IF u \in DOMAIN store THEN store[u].feature_vector ELSE EmptyDict

\* process_event(e) called in the current state: what it would return
Call(e) == ProcessEventResult(store, last_cleanup, e, now)

\* the event process_event(e) stores: e with its timestamp_unix
Stored(e) ==
    IF "timestamp_unix" \in DOMAIN e THEN e
    ELSE Merge(e, [timestamp_unix |-> e.timestamp.iso])

IsSuffix(a, b) == \E k \in 0..Len(b) : a = SubSeq(b, k + 1, Len(b))

Cutoff == now - (60 * 60)

Stale(u) == store[u].last_updated < Cutoff /\ store[u].created_at < Cutoff

AllNumbers(q) == \A i \in 1..Len(q) : "n" \in DOMAIN q[i].amount

WindowLengths == {0, Window1h, Window24h, Window1w}

(* ---------------------------------------------------------------------- *)
(* C1                                                                      *)
(* ---------------------------------------------------------------------- *)

\* C1: in every reachable state every entity's history holds at most
\* Capacity events and get_recent_events returns at most Capacity events
\* for every window length.
C1_HistoryBounded ==
    \A u \in DOMAIN store :
        /\ Len(History(u)) <= Capacity
        /\ \A m \in WindowLengths : Len(GetRecentEvents(store, u, m, now)) <= Capacity

\* Capacity + 1 events were processed for one entity with no time passing
\* (so nothing was trimmed), and its history is full
C1_Witness ==
    /\ nticks = 0
    /\ nproc = Capacity + 1
    /\ "u1" \in DOMAIN store
    /\ Len(History("u1")) = Capacity
    /\ Len(GetRecentEvents(store, "u1", Window1w, now)) = Capacity

(* ---------------------------------------------------------------------- *)
(* C2                                                                      *)
(* ---------------------------------------------------------------------- *)

\* C2: process_event on an entity whose history is full drops exactly the
\* event inserted first, whatever its timestamp, and keeps the others in
\* order behind the new one (a cleanup in the same call may then trim
\* expired events off the front); the call returns True when the amounts
\* are numbers, and when every kept event is inside the last hour the
\* velocity written is Capacity.
C2_EvictsOldestInserted ==
    \A e \in Events(now) :
        LET u    == e.user_id
            h    == HistoryBefore(u)
            kept == Append(Tail(h), Stored(e))
        IN  Len(h) = Capacity =>
              \A r \in {Call(e)} :
                 /\ u \in DOMAIN r[1]
                 /\ IsSuffix(r[1][u].recent_events, kept)
                 /\ (~(r[3] /\ now - last_cleanup > CleanupInterval))
                       => r[1][u].recent_events = kept
                 /\ AllNumbers(kept) => r[3]
                 /\ (r[3] /\ InWindow(kept, 3600, now) = kept)
                       => r[1][u].feature_vector["transaction_velocity_1h"]
                             = <<Capacity, 1>>

\* Capacity + 1 events inside the window were processed for u1 alone and
\* the velocity stored is Capacity
C2_Witness ==
    /\ nticks = 0
    /\ nproc = Capacity + 1
    /\ processed = {"u1"}
    /\ faulted["u1"] = {}
    /\ "u1" \in DOMAIN store
    /\ InWindow(History("u1"), 3600, now) = History("u1")
    /\ store["u1"].feature_vector["transaction_velocity_1h"] = <<Capacity, 1>>

(* ---------------------------------------------------------------------- *)
(* C3                                                                      *)
(* ---------------------------------------------------------------------- *)

\* the entities with both stamps before the cutoff whose history is empty
\* once the expired events are trimmed off its front
DueAfterTrimming ==
    {u \in DOMAIN store :
        Stale(u) /\ \A i \in 1..Len(History(u)) : StampOf(History(u)[i]) < Cutoff}

\* C3: one clear_old_entries call trims the expired events and deletes, in
\* that same call, every entity with both stamps before the cutoff whose
\* history is empty after the trimming, and returns their number.
C3_ReapTrimsThenDeletes ==
    /\ \A u \in DueAfterTrimming : u \notin DOMAIN ClearOldEntries(store, now)
    /\ ClearedCount(store, now) = Cardinality(DueAfterTrimming)

(* ---------------------------------------------------------------------- *)
(* C4                                                                      *)
(* ---------------------------------------------------------------------- *)

\* C4: no step deletes an entity unless both its stamps precede the cutoff
\* and its history is empty: an entity with a non-expired event stays even
\* with both stamps stale, an entity updated inside the window stays even
\* with an empty history.
C4_DeletesOnlyStaleAndEmpty ==
    [][\A u \in DOMAIN store :
          /\ u \notin DOMAIN store' => (Stale(u) /\ History(u) = <<>>)
          /\ (\E i \in 1..Len(History(u)) : StampOf(History(u)[i]) >= Cutoff)
                => u \in DOMAIN store'
          /\ store[u].last_updated >= Cutoff => u \in DOMAIN store']_vars

\* an entity that process_event had created is gone from the store while
\* another one is kept
C4_Witness == "u1" \in processed /\ "u1" \notin DOMAIN store /\ DOMAIN store # {}

(* ---------------------------------------------------------------------- *)
(* C5                                                                      *)
(* ---------------------------------------------------------------------- *)

\* a process_event call that returns False for an event with a user id:
\* the event is in the history, the feature vector is as before
FaultKeepsEventOnly(e, r) ==
    ~r[3] =>
       /\ e.user_id \in DOMAIN r[1]
       /\ r[1][e.user_id].recent_events = Pushed(HistoryBefore(e.user_id), Stored(e))
       /\ r[1][e.user_id].feature_vector = FeaturesBefore(e.user_id)

\* a process_event call that returns True writes the velocity of the
\* history as it stands with the new event pushed
SuccessRecomputes(e, r) ==
    r[3] =>
       r[1][e.user_id].feature_vector["transaction_velocity_1h"]
          = <<Len(InWindow(Pushed(HistoryBefore(e.user_id), Stored(e)), 3600, now)), 1>>

\* the event of a failed call leaves the history only as the head evicted
\* by a later push on the full buffer, or as an expired event
FaultedLeavesByEvictionOrTrim ==
    \A u \in Users : \A f \in faulted[u] :
        (/\ f \in Range(HistoryBefore(u))
         /\ (u \notin DOMAIN store' \/ f \notin Range(store'[u].recent_events)))
        => \/ (IsProcessStep /\ Len(History(u)) = Capacity /\ f = Head(History(u)))
           \/ StampOf(f) < Cutoff

\* C5 as amended: when the feature computation faults after the append,
\* process_event returns False, the event stays in the history and the
\* stored vector is what it was; the next call that returns True
\* recomputes from the history as it then stands, which holds the earlier
\* event unless eviction or a reap removed it in between.
C5_FaultKeepsEvent ==
    /\ [](\A e \in Events(now) :
             \A r \in {Call(e)} : FaultKeepsEventOnly(e, r) /\ SuccessRecomputes(e, r))
    /\ [][FaultedLeavesByEvictionOrTrim]_vars

\* C5 as claimed: ... and the next call that returns True for the entity
\* recomputes from a history that includes the earlier event.
C5_NextSuccessSeesFaultedEvent ==
    \A e \in Events(now) :
        \A r \in {Call(e)} :
            /\ FaultKeepsEventOnly(e, r)
            /\ r[3] => \A f \in faulted[e.user_id] :
                          f \in Range(Pushed(HistoryBefore(e.user_id), Stored(e)))

\* a call has returned False and its event is in the history, behind an
\* event of an earlier call
C5_Witness ==
    \E f \in faulted["u1"] :
        /\ "u1" \in DOMAIN store
        /\ Len(History("u1")) >= 2
        /\ f = Last(History("u1"))

(* ---------------------------------------------------------------------- *)
(* C6                                                                      *)
(* ---------------------------------------------------------------------- *)

\* C6: after a process_event call that returned True the stored vector of
\* the entity gives, for each of the eight features, the calculator's value
\* on the entity's window slice, or the default where that slice is empty
\* (a key the vector lacks is read as its default, as get_features does).
C6_FullRecompute ==
    \A e \in Events(now) :
        \A r \in {Call(e)} :
            r[3] =>
               LET appended == UpdateUserEvents(store, e.user_id, Stored(e), now)
               IN  Merge(DefaultFeatures, r[1][e.user_id].feature_vector)
                      = Merge(DefaultFeatures,
                              CalculateFeatures(appended, e.user_id, now))

(* ---------------------------------------------------------------------- *)
(* C7                                                                      *)
(* ---------------------------------------------------------------------- *)

\* C7: only a write creates an entity: every step that is not a
\* process_event call leaves the set of entities as it was or smaller, and
\* the store's get_user_features of an unknown id returns an empty dict.
C7_OnlyWritesCreate ==
    /\ [][IsProcessStep \/ (DOMAIN store' \subseteq DOMAIN store)]_vars
    /\ [](\A u \in Users \ DOMAIN store : GetUserFeatures(store, u, now)[2] = <<>>)

(* ---------------------------------------------------------------------- *)
(* C8                                                                      *)
(* ---------------------------------------------------------------------- *)

\* both threads have returned True from process_event
BothReturnedTrue == \A t \in Threads : pc[t] = "done" /\ ret[t]

\* C8: once two concurrent process_event calls for one entity have both
\* returned and the history holds both events, inside the last hour, the
\* stored vector is the one computed from that history: velocity is 2.
C8_NoLostUpdate ==
    (/\ BothReturnedTrue
     /\ ThreadUser \in DOMAIN store
     /\ \A t \in Threads : tevent[t] \in Range(History(ThreadUser))
     /\ InWindow(History(ThreadUser), 3600, now) = History(ThreadUser))
    => store[ThreadUser].feature_vector["transaction_velocity_1h"]
          = R(Len(History(ThreadUser)))

(* ---------------------------------------------------------------------- *)
(* C9                                                                      *)
(* ---------------------------------------------------------------------- *)

\* C9: once the concurrent process_event calls have returned, the dict
\* holds a state for the entity whose history has the event of every call
\* that returned True (the event being inside the store's window still,
\* so that no reap may have trimmed it).
C9_NoEventLost ==
    \A t \in Threads :
        (/\ \A x \in Threads : pc[x] = "done"
         /\ ret[t]
         /\ StampOf(tevent[t]) >= Cutoff)
        => /\ ThreadUser \in DOMAIN store
           /\ tevent[t] \in Range(History(ThreadUser))

(* ---------------------------------------------------------------------- *)
(* C10                                                                     *)
(* ---------------------------------------------------------------------- *)

\* C10: for an id process_event was never called for, get_features returns
\* exactly the eight named features with their defaults.
C10_UnknownGetsDefaults ==
    \A u \in Users \ processed :
        EngineGetFeatures(store, u, now)[2] =
            [transaction_velocity_1h |-> <<0, 1>>, amount_zscore |-> <<0, 1>>,
             amount_volatility |-> <<0, 1>>, location_anomaly |-> <<0, 1>>,
             location_consistency |-> <<1, 1>>, time_pattern_score |-> <<0, 1>>,
             merchant_diversity |-> <<0, 1>>,
             payment_method_consistency |-> <<1, 1>>]

\* u2 was read (its state exists) and never processed, while u1 was
C10_Witness ==
    /\ "u2" \notin processed
    /\ "u2" \in DOMAIN store
    /\ "u1" \in processed
    /\ "u1" \in DOMAIN store

(* ---------------------------------------------------------------------- *)
(* C11                                                                     *)
(* ---------------------------------------------------------------------- *)

\* C11: whenever an entity in the store has an empty history, get_features
\* returns the defaults for all eight features.
C11_EmptyHistoryGetsDefaults ==
    \A u \in DOMAIN store :
        History(u) = <<>> => EngineGetFeatures(store, u, now)[2] = DefaultFeatures

(* ---------------------------------------------------------------------- *)
(* C12                                                                     *)
(* ---------------------------------------------------------------------- *)

\* a number as the model stores it: a fraction of integers
IsNumeric(v) == v \in Int \X Int /\ v[2] > 0

\* C12: in every reachable state get_features returns, for every id, a
\* dict with exactly the eight named keys, each with a number.
C12_AlwaysFullyPopulated ==
    \A u \in Users :
        \A r \in {EngineGetFeatures(store, u, now)} :
            /\ DOMAIN r[2] = FeatureNames
            /\ \A k \in FeatureNames : IsNumeric(r[2][k])

\* a process_event call has returned False for u1, whose stored vector
\* lacks some of the eight keys, and u2 was processed and then deleted
C12_Witness ==
    /\ faulted["u1"] # {}
    /\ "u1" \in DOMAIN store
    /\ DOMAIN store["u1"].feature_vector # FeatureNames
    /\ "u2" \in processed
    /\ "u2" \notin DOMAIN store

(* ---------------------------------------------------------------------- *)
(* C13                                                                     *)
(* ---------------------------------------------------------------------- *)

\* C13: when every process_event call so far was for one entity and
\* returned True, their number N is at most Capacity, and all N events
\* are stored with timestamps inside the last 60 minutes, get_features
\* returns transaction_velocity_1h = N.
C13_VelocityIsNumberOfCalls ==
    \A u \in Users :
        (/\ allok
         /\ processed = {u}
         /\ nproc <= Capacity
         /\ u \in DOMAIN store
         /\ Len(History(u)) = nproc
         /\ InWindow(History(u), 3600, now) = History(u))
        => EngineGetFeatures(store, u, now)[2]["transaction_velocity_1h"] = R(nproc)

\* Capacity calls for u1, all returned True, all events inside the hour
C13_Witness ==
    /\ allok
    /\ processed = {"u1"}
    /\ nproc = Capacity
    /\ "u1" \in DOMAIN store
    /\ Len(History("u1")) = Capacity
    /\ InWindow(History("u1"), 3600, now) = History("u1")
    /\ store["u1"].feature_vector["transaction_velocity_1h"] = R(Capacity)

(* ---------------------------------------------------------------------- *)
(* C14                                                                     *)
(* ---------------------------------------------------------------------- *)

HasStamp(e) == "timestamp_unix" \in DOMAIN e \/ "timestamp" \in DOMAIN e

\* the epoch an event with a stamp is to carry: its own, else the one its
\* timestamp text gives, else the current time
ExpectedEpoch(e) ==
    IF "timestamp_unix" \in DOMAIN e THEN e.timestamp_unix
    ELSE IF "iso" \in DOMAIN e.timestamp THEN e.timestamp.iso
    ELSE now

\* process_event(e) returns True and leaves x as the last event of the
\* history, unless x is expired and the cleanup of that call trimmed it;
\* when x is inside the 1-hour window it is the last event of that window
AppendsAs(e, x) ==
    \A r \in {Call(e)} :
        /\ r[3]
        /\ \/ /\ e.user_id \in DOMAIN r[1]
              /\ r[1][e.user_id].recent_events # <<>>
              /\ Last(r[1][e.user_id].recent_events) = x
           \/ /\ ShouldCleanup(now, last_cleanup)
              /\ StampOf(x) < Cutoff
        /\ StampOf(x) > Cutoff =>
              /\ GetRecentEvents(r[1], e.user_id, Window1h, now) # <<>>
              /\ Last(GetRecentEvents(r[1], e.user_id, Window1h, now)) = x

\* every call with an event that has a timestamp_unix or a timestamp
\* appends it with the epoch it is to carry; a text that cannot be parsed
\* gives the current time, so that event is inside the 1-hour window
StampedCallsDeriveEpoch ==
    \A e \in StampEvents(now) :
        HasStamp(e) =>
            /\ AppendsAs(e, Merge(e, [timestamp_unix |-> ExpectedEpoch(e)]))
            /\ ("timestamp_unix" \notin DOMAIN e /\ "text" \in DOMAIN e.timestamp)
                  => ExpectedEpoch(e) > Cutoff

C15_ReadsAreIdempotent ==
    \A u \in Users :
        \A r1 \in {EngineGetFeatures(store, u, now)} :
            /\ EngineGetFeatures(r1[1], u, now)[2] = r1[2]
            /\ \A k \in FeatureNames \cup {"note"} :
                  EngineGetFeatures(WriteReturnedDict(r1[1], u, r1[3], k, R(7)),
                                    u, now)[2] = r1[2]

\* get_features was called for the unknown u2 and u1 has a stored vector
\* that differs from the defaults
C15_Witness ==
    /\ "u2" \in DOMAIN store
    /\ "u2" \notin processed
    /\ "u1" \in DOMAIN store
    /\ store["u1"].feature_vector # EmptyDict
    /\ Merge(DefaultFeatures, store["u1"].feature_vector) # DefaultFeatures

(* ---------------------------------------------------------------------- *)
(* C16                                                                     *)
(* ---------------------------------------------------------------------- *)

\* the features get_features returns for a stored entity
FeaturesOf(u) == Merge(DefaultFeatures, store[u].feature_vector)

Between01(v) == RLeq(R(0), v) /\ RLeq(v, R(1))

\* the ranges of the features that do not depend on the length of the history
RatiosInRange(f) ==
    /\ f["location_anomaly"] \in {R(0), R(1)}
    /\ Between01(f["location_consistency"])
    /\ Between01(f["merchant_diversity"])
    /\ RLess(R(0), f["payment_method_consistency"])
    /\ RLeq(f["payment_method_consistency"], R(1))
    /\ Between01(f["time_pattern_score"])

VelocityIsCount(f) ==
    /\ f["transaction_velocity_1h"][2] = 1
    /\ f["transaction_velocity_1h"][1] >= 0

\* C16: in every reachable state, for every stored entity,
\* transaction_velocity_1h is an integer between 0 and the number of its
\* stored events (at most Capacity), location_anomaly is 0 or 1,
\* location_consistency, merchant_diversity and time_pattern_score lie in
\* [0, 1] and payment_method_consistency lies in (0, 1].
C16_FeaturesInRange ==
    \A u \in DOMAIN store :
        /\ VelocityIsCount(FeaturesOf(u))
        /\ FeaturesOf(u)["transaction_velocity_1h"][1] <= Len(History(u))
        /\ Len(History(u)) <= Capacity
        /\ RatiosInRange(FeaturesOf(u))

\* what does hold: every range of C16 but the upper bound of the velocity
C16_RangesButVelocityBound ==
    \A u \in DOMAIN store :
        /\ VelocityIsCount(FeaturesOf(u))
        /\ FeaturesOf(u)["transaction_velocity_1h"][1] <= Capacity
        /\ RatiosInRange(FeaturesOf(u))

\* the velocity exceeds the number of stored events only for an entity
\* whose history was trimmed after its vector was written
C16_VelocityBoundUnlessTrimmed ==
    \A u \in DOMAIN store :
        store[u].last_updated = now =>
            FeaturesOf(u)["transaction_velocity_1h"][1] <= Len(History(u))

(* ---------------------------------------------------------------------- *)
(* C17                                                                     *)
(* ---------------------------------------------------------------------- *)

\* the events of q that have a location
Located(q) == SelectSeq(q, LAMBDA e : Get(e, "location", "") # "")

\* how many located events of q are at location l
At(q, l) == Cardinality({i \in 1..Len(q) : Get(q[i], "location", "") = l})

LocationsOf(q) == {Get(q[i], "location", "") : i \in 1..Len(q)} \ {""}

\* the share of the latest event's location: 0 when it has no location
LatestCount(q) ==
    IF Get(q[Len(q)], "location", "") = "" THEN 0
    ELSE At(q, Get(q[Len(q)], "location", ""))

\* a slice of n events at location a followed by one at location b
Run(n, e, last) == [i \in 1..(n + 1) |-> IF i <= n THEN e ELSE last]

NineAOneB == Run(9, CalcEvent(10, "A", now), CalcEvent(10, "B", now))

\* C17: for every slice, location_anomaly is 1 exactly when the latest
\* event's location has at most 10% of the located events and there are
\* more than 5 located events; location_consistency is the largest count of
\* a location over the number of located events; nine events at A and then
\* one at B give 1 and 0.9.
C17_LocationFeatures ==
    /\ slice # <<>> =>
          \A r \in {CalculateLocationFeatures(slice)} :
              /\ r.location_anomaly \in {R(0), R(1)}
              /\ r.location_anomaly = R(1) <=>
                    (/\ LatestCount(slice) * 10 <= Len(Located(slice))
                     /\ Len(Located(slice)) > 5)
              /\ Located(slice) # <<>> =>
                    \E l \in LocationsOf(slice) :
                        /\ \A o \in LocationsOf(slice) : At(slice, o) <= At(slice, l)
                        /\ r.location_consistency[1] * Len(Located(slice))
                              = At(slice, l) * r.location_consistency[2]
    /\ slice = NineAOneB =>
          /\ CalculateLocationFeatures(slice).location_anomaly = R(1)
          /\ CalculateLocationFeatures(slice).location_consistency = <<9, 10>>

\* the slice of nine events at A and one at B has been built
C17_Witness == slice = NineAOneB

\* the latest event has no location and six others have: anomaly 1
C17_WitnessNoLocation ==
    /\ Len(Located(slice)) > 5
    /\ LatestCount(slice) = 0
    /\ CalculateLocationFeatures(slice).location_anomaly = R(1)

(* ---------------------------------------------------------------------- *)
(* C18                                                                     *)
(* ---------------------------------------------------------------------- *)

\* q is k >= 2 events of one amount m >= 10 followed by one of amount 5 * m
EqualThenFiveFold(q) ==
    /\ Len(q) >= 3
    /\ \A i \in 1..Len(q) : IsNumber(Get(q[i], "amount", Num(0)))
    /\ q[1].amount.n >= 10
    /\ \A i \in 1..(Len(q) - 1) : q[i].amount = q[1].amount
    /\ q[Len(q)].amount.n = 5 * q[1].amount.n

\* a store in which u1's history is q
Holding(q) == [u \in {"u1"} |-> [NewUserState(now) EXCEPT !.recent_events = q]]

TenHundredsThenFiveHundred ==
    Run(10, CalcEvent(100, "A", now), CalcEvent(500, "A", now))

\* amount_zscore is kept as its signed square: zscore > 2
ZscoreAboveTwo(f) == RLess(R(4), f["amount_zscore"])

\* C18: a slice of k >= 2 events of one amount m >= 10 followed by one
\* event of amount 5 * m gives amount_zscore > 2.0, from the calculator and
\* from _calculate_features on a history holding these events inside the
\* last 24 hours; so do ten events of 100 followed by one of 500.
C18_FiveFoldAmountScoresAboveTwo ==
    /\ EqualThenFiveFold(slice) =>
          /\ ZscoreAboveTwo(CalculateAmountFeatures(slice))
          /\ ZscoreAboveTwo(CalculateFeatures(Holding(slice), "u1", now))
    /\ slice = TenHundredsThenFiveHundred =>
          /\ EqualThenFiveFold(slice)
          /\ CalculateAmountFeatures(slice).amount_zscore = R(40 * 40)

\* the slice of ten events of 100 and one of 500 has been built
C18_Witness == slice = TenHundredsThenFiveHundred

\* the smallest case: two events of 10 and one of 50
C18_WitnessSmallest ==
    /\ slice = Run(2, CalcEvent(10, "A", now), CalcEvent(50, "A", now))
    /\ EqualThenFiveFold(slice)

(* ---------------------------------------------------------------------- *)
(* C19                                                                     *)
(* ---------------------------------------------------------------------- *)

Expired(e) == StampOf(e) < Cutoff

\* the position of the first event of q that is not expired, Len(q) + 1
\* when all are
FirstFresh(q) ==
    IF \E i \in 1..Len(q) : ~Expired(q[i])
    THEN CHOOSE i \in 1..Len(q) :
            /\ ~Expired(q[i])
            /\ \A j \in 1..(i - 1) : Expired(q[j])
    ELSE Len(q) + 1

\* C19: clear_old_entries called in any reachable state leaves, for every
\* entity it keeps, the history from the first non-expired event on: the
\* expired events before it are removed, every event behind it stays, in
\* the order of insertion.
C19_ReapTrimsLongestExpiredPrefix ==
    \A after \in {ClearOldEntries(store, now)} :
        \A u \in DOMAIN after :
            after[u].recent_events
                = SubSeq(History(u), FirstFresh(History(u)), Len(History(u)))

\* a reap has run at the current time and u1's history still holds an
\* expired event behind a non-expired one
C19_Witness ==
    /\ last_cleanup = now
    /\ now > T0
    /\ "u1" \in DOMAIN store
    /\ Len(History("u1")) = 2
    /\ ~Expired(History("u1")[1])
    /\ Expired(History("u1")[2])

\* a reap would remove an expired prefix and keep the rest
C19_WitnessTrims ==
    /\ "u1" \in DOMAIN store
    /\ Len(History("u1")) = 2
    /\ Expired(History("u1")[1])
    /\ ~Expired(History("u1")[2])

(* ---------------------------------------------------------------------- *)
(* C20                                                                     *)
(* ---------------------------------------------------------------------- *)

\* the stored events of u newer than now - minutes * 60, in insertion order
NewerThan(u, minutes) ==
    IF u \in DOMAIN store
    THEN SelectSeq(History(u), LAMBDA e : StampOf(e) > now - (minutes * 60))
    ELSE <<>>

\* a process_event(e) that returns True leaves e last in every window it
\* falls in
LastOfWindow(e, r, minutes) ==
    (r[3] /\ StampOf(Stored(e)) > now - (minutes * 60)) =>
        \A w \in {GetRecentEvents(r[1], e.user_id, minutes, now)} :
            w # <<>> /\ w[Len(w)] = Stored(e)

\* C20: get_recent_events(u, minutes) returns, for every window length
\* minutes >= 0, exactly the stored events of u with timestamp_unix >
\* now - minutes * 60, in insertion order, and the empty list for an unknown
\* id; an event just processed is the last element of a window it falls in.
C20_WindowedReadsWindow ==
    /\ \A u \in Users : \A minutes \in WindowLengths :
          GetRecentEvents(store, u, minutes, now) = NewerThan(u, minutes)
    /\ \A e \in Events(now) : \A r \in {Call(e)} :
          \A minutes \in WindowLengths : LastOfWindow(e, r, minutes)

\* what does hold: the read for the window lengths above 0, and the
\* processed event being last in the window of max_window_minutes
C20_PositiveWindowsReadWindow ==
    /\ \A u \in Users : \A minutes \in WindowLengths \ {0} :
          GetRecentEvents(store, u, minutes, now) = NewerThan(u, minutes)
    /\ \A e \in Events(now) : \A r \in {Call(e)} :
          LastOfWindow(e, r, MaxWindowMinutes)

\* an event just processed is last in the windows longer than
\* max_window_minutes as well: fails when the cleanup of the same call
\* removes it
C20_LastOfLongWindows ==
    \A e \in Events(now) : \A r \in {Call(e)} :
        \A minutes \in {Window24h, Window1w} : LastOfWindow(e, r, minutes)

(* ---------------------------------------------------------------------- *)
(* C21                                                                     *)
(* ---------------------------------------------------------------------- *)

\* the store once process_event(e) has appended e and written the features
\* back, before the periodic cleanup is asked for
WrittenBack(e) ==
    LET ev       == WithTimestampUnix(e, now)
        appended == UpdateUserEvents(store, ev.user_id, ev, now)
    IN  UpdateUserFeatures(appended, ev.user_id,
                           CalculateFeatures(appended, ev.user_id, now), now)

Due == now - last_cleanup > CleanupInterval

\* C21: a process_event call that returns True runs clear_old_entries
\* exactly when now - last_cleanup > cleanup_interval holds after the
\* write-back; so last_cleanup moves only when more than cleanup_interval
\* seconds have passed since it was set, and should_cleanup() is false
\* right after a call that returned True.
C21_CleanupExactlyWhenDue ==
    \A e \in CleanupEvents(now) : \A r \in {Call(e)} :
        /\ r[3] => IF Due
                   THEN r[2] = now /\ r[1] = ClearOldEntries(WrittenBack(e), now)
                   ELSE r[2] = last_cleanup /\ r[1] = WrittenBack(e)
        /\ r[2] # last_cleanup => now - last_cleanup > CleanupInterval
        /\ r[3] => ~(now - r[2] > CleanupInterval)

\* in every step last_cleanup moves only to the current time and only when
\* more than cleanup_interval seconds have passed since it was set
C21_CleanupStepsAreDue ==
    [][last_cleanup' # last_cleanup =>
          /\ last_cleanup' = now
          /\ now - last_cleanup > CleanupInterval]_vars

\* a process_event call has run the cleanup, and exactly cleanup_interval
\* seconds later another call has returned True for u1 without running it
C21_Witness ==
    /\ last_cleanup > T0
    /\ now - last_cleanup = CleanupInterval
    /\ "u1" \in DOMAIN store
    /\ store["u1"].last_updated = now
    /\ allok

(* ---------------------------------------------------------------------- *)
(* C22                                                                     *)
(* ---------------------------------------------------------------------- *)

\* a step that is a clear_old_entries call: no process_event call, no
\* clock advance and no entity created
IsClearStep ==
    /\ nproc' = nproc
    /\ now' = now
    /\ DOMAIN store' \subseteq DOMAIN store

\* clear_old_entries called in the current state returns the number of
\* entities it deletes, and total_users of get_stats drops by that number
ReapCounts ==
    /\ \A after \in {ClearOldEntries(store, now)} :
          /\ GetStats(after, now).total_users
                = GetStats(store, last_cleanup).total_users - ClearedCount(store, now)
          /\ ClearedCount(store, now) = Cardinality((DOMAIN store) \ DOMAIN after)
    /\ \A r \in {PeriodicCleanup(store, now, last_cleanup)} :
          r[1] # store => r[2] = now

\* C22: every clear_old_entries call leaves last_cleanup at the time of the
\* call, whether or not it trimmed or deleted anything, and returns the
\* number of entities it deleted: total_users of get_stats after the call
\* is its value before minus the number returned.
C22_ReapStampsAndCounts ==
    /\ []ReapCounts
    /\ [][(IsClearStep /\ (store' # store \/ last_cleanup' # last_cleanup))
             => last_cleanup' = now]_vars

\* a cleanup has run after the clock advanced: it deleted u1, kept u2 and
\* left last_cleanup at the current time
C22_Witness ==
    /\ now > T0
    /\ last_cleanup = now
    /\ "u1" \in processed
    /\ "u1" \notin DOMAIN store
    /\ "u2" \in DOMAIN store
    /\ ClearedCount(store, now) = 0

\* a cleanup would delete an entity and return 1
C22_WitnessDeletes == ClearedCount(store, now) = 1 /\ Cardinality(DOMAIN store) = 2

(* ---------------------------------------------------------------------- *)
(* C23                                                                     *)
(* ---------------------------------------------------------------------- *)

\* the dicts update_user_features is called with: none of the keys, one
\* key, a key no calculator writes, and what _calculate_features returns
\* when it returns
FeatureWrites(u) ==
    { EmptyDict,
      [k \in {"merchant_diversity"} |-> R(7)],
      [k \in {"transaction_velocity_1h", "note"} |-> R(9)] }
        \cup (IF CalculateFaults(store, u, now) THEN {}
              ELSE {CalculateFeatures(store, u, now)})

\* C23: update_user_features(u, f) creates the state of u when absent,
\* gives every key of f its new value, leaves every other stored key as it
\* was, leaves the history and created_at unchanged, sets last_updated to
\* the current time and touches no other entity.
C23_UpdateFeaturesMerges ==
    \A u \in Users : \A f \in FeatureWrites(u) :
        \A after \in {UpdateUserFeatures(store, u, f, now)} :
            /\ DOMAIN after = (DOMAIN store) \cup {u}
            /\ \A o \in DOMAIN store : o # u => after[o] = store[o]
            /\ DOMAIN after[u].feature_vector
                  = (DOMAIN FeaturesBefore(u)) \cup DOMAIN f
            /\ \A k \in DOMAIN f : after[u].feature_vector[k] = f[k]
            /\ \A k \in (DOMAIN FeaturesBefore(u)) \ DOMAIN f :
                  after[u].feature_vector[k] = FeaturesBefore(u)[k]
            /\ after[u].recent_events = HistoryBefore(u)
            /\ after[u].created_at
                  = (IF u \in DOMAIN store THEN store[u].created_at ELSE now)
            /\ after[u].last_updated = now

\* a process_event call has written u1's vector a day after the call that
\* computed amount_zscore 40 from the amounts 10 and 50: its own 24-hour
\* slice was empty, the velocity it wrote is 0 and the zscore is kept
C23_Witness ==
    /\ allok
    /\ "u1" \in DOMAIN store
    /\ store["u1"].created_at < store["u1"].last_updated
    /\ store["u1"].last_updated = now
    /\ Get(store["u1"].feature_vector, "transaction_velocity_1h", R(1)) = R(0)
    /\ Get(store["u1"].feature_vector, "amount_zscore", R(0)) = R(40 * 40)

(* ---------------------------------------------------------------------- *)
(* C24                                                                     *)
(* ---------------------------------------------------------------------- *)

AmountsOf(q) == [i \in 1..Len(q) |-> q[i].amount.n]

MeanOfHistory(q) == Norm(SumSeq(Front(AmountsOf(q))), Len(q) - 1)

\* max(|mean| * 0.1, 1.0), squared
ClaimedFloor2(mean) ==
    IF RLess(R(1), RMul(RMul(mean, mean), <<1, 100>>))
    THEN RMul(RMul(mean, mean), <<1, 100>>) ELSE R(1)

\* the stdev of C24, squared: the floor with one historical amount or with
\* a sample stdev of 0
ClaimedStd2(q) ==
    IF Len(q) = 2 THEN ClaimedFloor2(MeanOfHistory(q))
    ELSE IF Variance(Front(AmountsOf(q)))[1] = 0 THEN ClaimedFloor2(MeanOfHistory(q))
    ELSE Variance(Front(AmountsOf(q)))

SignedSquare(v) == IF v[1] < 0 THEN <<0 - RMul(v, v)[1], RMul(v, v)[2]>> ELSE RMul(v, v)

\* (recent - mean) / stdev and stdev / mean, as signed squares
ClaimedAmountFeatures(q) ==
    LET diff == RSub(R(Last(AmountsOf(q))), MeanOfHistory(q))
        z2   == RDiv(RMul(diff, diff), ClaimedStd2(q))
    IN  [amount_zscore |-> IF diff[1] < 0 THEN <<0 - z2[1], z2[2]>> ELSE z2,
         amount_volatility |->
             IF MeanOfHistory(q)[1] > 0
             THEN RDiv(ClaimedStd2(q), RMul(MeanOfHistory(q), MeanOfHistory(q)))
             ELSE R(0)]

\* C24: a slice of at least 2 amounts gives amount_zscore = (recent - mean)
\* / stdev and amount_volatility = stdev / mean (0 unless mean > 0), with
\* the mean of all amounts but the last and with stdev = max(|mean| * 0.1,
\* 1.0) when there is one historical amount or the sample stdev is 0; a
\* slice of fewer than 2 amounts gives 0 and 0.
C24_AmountFeaturesUseFloorOfOne ==
    IF Len(slice) >= 2
    THEN CalculateAmountFeatures(slice) = ClaimedAmountFeatures(slice)
    ELSE CalculateAmountFeatures(slice)
            = [amount_zscore |-> R(0), amount_volatility |-> R(0)]

\* what does hold: the two agree unless 0 < |mean| < 10 and the floor is used
C24_AgreesOutsideSmallMeans ==
    (/\ Len(slice) >= 2
     /\ \/ MeanOfHistory(slice)[1] = 0
        \/ ~RLess(RMul(MeanOfHistory(slice), MeanOfHistory(slice)), R(100))
        \/ (Len(slice) > 2 /\ Variance(Front(AmountsOf(slice)))[1] # 0))
        => CalculateAmountFeatures(slice) = ClaimedAmountFeatures(slice)

\* what does hold: the divisor the code uses is never 0
C24_DivisorNeverZero ==
    Len(slice) >= 2 =>
        \A m \in {MeanOfHistory(slice)} :
            /\ FloorStd2(m)[1] > 0
            /\ (Len(slice) > 2 /\ Variance(Front(AmountsOf(slice)))[1] # 0)
                  => Variance(Front(AmountsOf(slice)))[1] > 0

(* ---------------------------------------------------------------------- *)
(* C25                                                                     *)
(* ---------------------------------------------------------------------- *)

\* get_recent_events(u, minutes) is the same before and after a
\* clear_old_entries call made in the current state
ReapKeepsWindow(u, minutes) ==
    GetRecentEvents(ClearOldEntries(store, now), u, minutes, now)
        = GetRecentEvents(store, u, minutes, now)

\* C25: clear_old_entries removes no event that a feature window still
\* returns: for every entity the 24-hour and the 1-week window read the
\* same before and after a cleanup taken at the same instant, so the next
\* features do not depend on whether a cleanup ran.
C25_ReapKeepsFeatureWindows ==
    \A u \in Users :
        /\ ReapKeepsWindow(u, Window24h)
        /\ ReapKeepsWindow(u, Window1w)
        /\ \A e \in Events(now) :
              e.user_id = u =>
                 CalculateFaults(UpdateUserEvents(store, u, WithTimestampUnix(e, now), now), u, now)
                 \/ CalculateFeatures(UpdateUserEvents(ClearOldEntries(store, now), u,
                                                       WithTimestampUnix(e, now), now), u, now)
                      = CalculateFeatures(UpdateUserEvents(store, u,
                                                           WithTimestampUnix(e, now), now), u, now)

\* what does hold: the window of max_window_minutes reads the same
C25_ReapKeepsShortWindow ==
    \A u \in Users : ReapKeepsWindow(u, Window1h) /\ ReapKeepsWindow(u, 0)

(* ---------------------------------------------------------------------- *)
(* C26                                                                     *)
(* ---------------------------------------------------------------------- *)

\* C26: with time advancing and clear_old_entries called again and again,
\* every stored entity is eventually deleted once it receives no further
\* process_event call (every behaviour has finitely many of them, so every
\* entity is idle from some point on).
C26_IdleEntitiesAreDeleted ==
    \A u \in Users : (u \in DOMAIN store) ~> (u \notin DOMAIN store)

\* every process_event call has been made, u1 was one of their entities
\* and is gone from the store, which is empty
C26_Witness ==
    /\ nproc = MaxProcess
    /\ processed = Users
    /\ store = EmptyDict
    /\ now > T0

(* ---------------------------------------------------------------------- *)
(* C27                                                                     *)
(* ---------------------------------------------------------------------- *)

\* C27: process_event returns True or False for every event, and for an
\* event without a user id it returns False and leaves the store as it
\* was: the same entities, histories and feature vectors and the same
\* last_cleanup.
C27_NoIdReturnsFalseAndKeepsStore ==
    \A e \in AnyEvents(now) : \A r \in {Call(e)} :
        /\ r[3] \in BOOLEAN
        /\ "user_id" \notin DOMAIN e =>
              (r[1] = store /\ r[2] = last_cleanup /\ r[3] = FALSE)

\* the only call made so far had no user id: it returned False and the
\* store is still empty
C27_Witness ==
    /\ nproc = 1
    /\ ~allok
    /\ processed = {}
    /\ store = EmptyDict

\* a call without a user id was made when a cleanup was due and entities
\* were stored
C27_WitnessLate ==
    /\ nproc = MaxProcess
    /\ ~allok
    /\ \A u \in Users : faulted[u] = {}
    /\ DOMAIN store = Users
    /\ now - last_cleanup > CleanupInterval

(* ---------------------------------------------------------------------- *)
(* C28                                                                     *)
(* ---------------------------------------------------------------------- *)

FutureDated(e) == StampOf(e) > now

\* every stored event dated later than now is returned for every window
\* length
FutureEventsInEveryWindow ==
    \A u \in DOMAIN store : \A i \in 1..Len(History(u)) :
        FutureDated(History(u)[i]) =>
            \A minutes \in WindowLengths :
                History(u)[i] \in Range(GetRecentEvents(store, u, minutes, now))

\* the velocity a process_event call writes counts the future-dated events
\* of the history it computes from
FutureEventsCountInVelocity ==
    \A e \in AheadEvents(now) : \A r \in {Call(e)} :
        r[3] =>
           \A q \in {Pushed(HistoryBefore(e.user_id), Stored(e))} :
               /\ WrittenBack(e)[e.user_id].feature_vector["transaction_velocity_1h"][1]
                     >= Cardinality({i \in 1..Len(q) : FutureDated(q[i])})
               /\ FutureDated(Stored(e)) =>
                     WrittenBack(e)[e.user_id].feature_vector["transaction_velocity_1h"][1] >= 1

\* the i-th event of u leaves the history in this step because the buffer
\* is full and a process_event call appends to it
EvictedByCapacity(u, i) ==
    IsProcessStep /\ Len(History(u)) = Capacity /\ i = 1

\* a stored event whose timestamp plus the window length has not passed
\* after this step is still returned for that window, unless capacity
\* evicted it
StaysWhileInWindow(minutes) ==
    \A u \in DOMAIN store : \A i \in 1..Len(History(u)) :
        (/\ StampOf(History(u)[i]) > now' - (minutes * 60)
         /\ ~EvictedByCapacity(u, i))
            => /\ u \in DOMAIN store'
               /\ History(u)[i] \in Range(GetRecentEvents(store', u, minutes, now'))

\* C28: get_recent_events applies only a lower time bound: a stored event
\* dated later than now is returned for every window length and counts in
\* transaction_velocity_1h, and an event stays in every slice until its
\* timestamp plus the window length has passed, unless capacity evicts it.
C28_OnlyLowerBoundUntilWindowPasses ==
    /\ [](FutureEventsInEveryWindow /\ FutureEventsCountInVelocity)
    /\ [][\A minutes \in {Window1h, Window24h, Window1w} :
             StaysWhileInWindow(minutes)]_vars

\* what does hold: the lower bound only, the velocity, and the stay in the
\* window of max_window_minutes
C28_HoldsForShortWindow ==
    /\ [](FutureEventsInEveryWindow /\ FutureEventsCountInVelocity)
    /\ [][StaysWhileInWindow(Window1h)]_vars

====
